---- MODULE Spec2Model ----
(***************************************************************************)
(* Loan schedule engine of src/main.py: the /calculate request handler     *)
(* (start-date validation, mid-month transaction, direct deposit, the      *)
(* month-by-month schedule builder) and calculate_monthly_balance.         *)
(*                                                                         *)
(* Money.  The code computes in binary doubles.  Here an amount is the     *)
(* exact rational  c + r/DEN  cents, held as the record [c, r] with        *)
(* 0 <= r < DEN and DEN = 365 * 100, the denominator of one period's       *)
(* interest on a whole number of cents at a whole-percent rate.  Interest  *)
(* on an amount that itself carries a fraction of a cent is kept to        *)
(* 1/DEN cent.  round(x, 2) is rounding to the nearest cent, ties to even. *)
(*                                                                         *)
(* Dates are records [y, m, d]; date strings are sequences of one-         *)
(* character strings, formatted and parsed character by character.         *)
(***************************************************************************)
EXTENDS Integers, Sequences, FiniteSets, TLC

(***************************************************************************)
(* Bounds of the model                                                     *)
(***************************************************************************)
\* as-of dates ("today") range over the first MaxAsOfMonths months from 2024-01
MaxAsOfMonths == 12
\* mid-month anchors (month_index) range over 0 .. MaxAnchor
MaxAnchor == 1

(***************************************************************************)
(* datetime.date and calendar                                              *)
(***************************************************************************)
date(y, m, d) == [y |-> y, m |-> m, d |-> d]

isleap(y) == (y % 4 = 0) /\ ((y % 100 # 0) \/ (y % 400 = 0))

\* calendar.monthrange(y, m)[1]: the number of days of month m of year y
monthrange(y, m) ==
    IF m = 2 THEN (IF isleap(y) THEN 29 ELSE 28)
    ELSE IF m \in {4, 6, 9, 11} THEN 30 ELSE 31

\* the days of a common year before the first day of each month
DaysBeforeMonth == <<0, 31, 59, 90, 120, 151, 181, 212, 243, 273, 304, 334>>

days_before_month(y, m) ==
    DaysBeforeMonth[m] + (IF m > 2 /\ isleap(y) THEN 1 ELSE 0)

\* date.toordinal(): days since 0001-01-01, that day being 1
toordinal(dt) ==
    LET y1 == dt.y - 1
    IN  y1 * 365 + (y1 \div 4) - (y1 \div 100) + (y1 \div 400)
        + days_before_month(dt.y, dt.m) + dt.d

\* (a - b).days
days_between(a, b) == toordinal(a) - toordinal(b)

date_le(a, b) == toordinal(a) <= toordinal(b)
date_lt(a, b) == toordinal(a) < toordinal(b)

\* date(d.year, d.month, calendar.monthrange(d.year, d.month)[1])
month_end_of(dt) == date(dt.y, dt.m, monthrange(dt.y, dt.m))

first_of_next_month_november(dt) ==
    IF dt.m >= 11 THEN date(dt.y + 1, 1, 1) ELSE date(dt.y, dt.m + 1, 1)

\* the first day of the month after dt's month
first_of_next_month(dt) ==
    IF dt.m = 12 THEN date(dt.y + 1, 1, 1) ELSE date(dt.y, dt.m + 1, 1)

(***************************************************************************)
(* Date strings                                                            *)
(***************************************************************************)
DigitChars == <<"0", "1", "2", "3", "4", "5", "6", "7", "8", "9">>

IsDigit(ch) == \E i \in 1..10 : DigitChars[i] = ch
DigitVal(ch) == (CHOOSE i \in 1..10 : DigitChars[i] = ch) - 1
DigitOf(n) == DigitChars[n + 1]

\* str.strip() on blanks
RECURSIVE lstrip(_)
lstrip(s) == IF s # <<>> /\ Head(s) = " " THEN lstrip(Tail(s)) ELSE s

RECURSIVE rstrip(_)
rstrip(s) ==
    IF s # <<>> /\ s[Len(s)] = " " THEN rstrip(SubSeq(s, 1, Len(s) - 1)) ELSE s

strip(s) == rstrip(lstrip(s))

\* the "YYYY-MM-DD" text a date input sends
isoformat(dt) ==
    << DigitOf(dt.y \div 1000), DigitOf((dt.y \div 100) % 10),
       DigitOf((dt.y \div 10) % 10), DigitOf(dt.y % 10), "-",
       DigitOf(dt.m \div 10), DigitOf(dt.m % 10), "-",
       DigitOf(dt.d \div 10), DigitOf(dt.d % 10) >>

NoDate == [y |-> 0, m |-> 0, d |-> 0]
ValueError == [ok |-> FALSE, date |-> NoDate]

\* characters s[i..], "" past the end
At(s, i) == IF i \in 1..Len(s) THEN s[i] ELSE ""

\* %m : 1[0-2] | 0[1-9] | [1-9], the alternative taken being the one after
\* which the "-" of the format matches; 0 when none does
MonthWidth(s, p) ==
    LET a == At(s, p)
        b == At(s, p + 1)
        two == \/ (a = "1" /\ b \in {"0", "1", "2"})
               \/ (a = "0" /\ IsDigit(b) /\ b # "0")
    IN  IF two /\ At(s, p + 2) = "-" THEN 2
        ELSE IF IsDigit(a) /\ a # "0" /\ b = "-" THEN 1
        ELSE 0

\* %d : 3[01] | [12]\d | 0[1-9] | [1-9] | " "[1-9], first alternative that
\* matches; [width, value], width 0 when none does
DayMatch(s, p) ==
    LET a == At(s, p)
        b == At(s, p + 1)
    IN  IF a = "3" /\ b \in {"0", "1"} THEN <<2, 30 + DigitVal(b)>>
        ELSE IF a \in {"1", "2"} /\ IsDigit(b) THEN <<2, 10 * DigitVal(a) + DigitVal(b)>>
        ELSE IF a = "0" /\ IsDigit(b) /\ b # "0" THEN <<2, DigitVal(b)>>
        ELSE IF IsDigit(a) /\ a # "0" THEN <<1, DigitVal(a)>>
        ELSE IF a = " " /\ IsDigit(b) /\ b # "0" THEN <<2, DigitVal(b)>>
        ELSE <<0, 0>>

\* datetime.strptime(s, '%Y-%m-%d').date(), or ValueError
strptime_Ymd(s) ==
    IF ~ (/\ Len(s) >= 5
          /\ \A i \in 1..4 : IsDigit(s[i])
          /\ s[5] = "-")
    THEN ValueError
    ELSE
      LET y  == 1000 * DigitVal(s[1]) + 100 * DigitVal(s[2])
                + 10 * DigitVal(s[3]) + DigitVal(s[4])
          mw == MonthWidth(s, 6)
          m  == IF mw = 2 THEN 10 * DigitVal(s[6]) + DigitVal(s[7])
                ELSE IF mw = 1 THEN DigitVal(s[6]) ELSE 0
          dm == DayMatch(s, 6 + mw + 1)
      IN  IF mw = 0 \/ dm[1] = 0 THEN ValueError
          \* "unconverted data remains"
          ELSE IF 6 + mw + dm[1] # Len(s) THEN ValueError
          \* "day is out of range for month", year 0
          ELSE IF y < 1 \/ dm[2] > monthrange(y, m) THEN ValueError
          ELSE [ok |-> TRUE, date |-> date(y, m, dm[2])]

MonthAbbr == <<"Jan", "Feb", "Mar", "Apr", "May", "Jun",
               "Jul", "Aug", "Sep", "Oct", "Nov", "Dec">>

\* d.strftime('%d %b %Y')
strftime_dbY(dt) == [dd |-> dt.d, bbb |-> MonthAbbr[dt.m], yyyy |-> dt.y]

\* datetime.strptime(e, '%d %b %Y').date()
strptime_dbY(e) ==
    date(e.yyyy, CHOOSE m \in 1..12 : MonthAbbr[m] = e.bbb, e.dd)

(***************************************************************************)
(* Money                                                                   *)
(***************************************************************************)
DEN == 365 * 100

Cents(n) == [c |-> n, r |-> 0]

\* c cents and u units of 1/DEN cent, normalised
Norm(c, u) == [c |-> c + (u \div DEN), r |-> u % DEN]

Plus(a, b) == Norm(a.c + b.c, a.r + b.r)
Minus(a, b) == Norm(a.c - b.c, a.r - b.r)

IsNeg(a) == a.c < 0
IsPos(a) == a.c > 0 \/ (a.c = 0 /\ a.r > 0)
Abs(a) == IF IsNeg(a) THEN Minus(Cents(0), a) ELSE a

\* round(x, 2)
round2(a) ==
    IF 2 * a.r > DEN THEN Cents(a.c + 1)
    ELSE IF 2 * a.r < DEN THEN Cents(a.c)
    ELSE IF a.c % 2 = 0 THEN Cents(a.c) ELSE Cents(a.c + 1)

\* (days / 365) * (interest_rate / 100) * balance
accrued_interest_360(days, interest_rate, balance) ==
    LET k == days * interest_rate
        n == 360 * 100
        q == balance.c \div n
        s == balance.c % n
        u == k * s + ((k * balance.r) \div DEN)
    IN  Norm(k * q + (u \div n), ((u % n) * DEN) \div n)

\* in cents: k * (c + r/DEN) / DEN with k = days * interest_rate; c is split as
\* q * DEN + s so that no product leaves the machine integers
accrued_interest(days, interest_rate, balance) ==
    LET k == days * interest_rate
        q == balance.c \div DEN
        s == balance.c % DEN
    IN  Norm(k * q, k * s + ((k * balance.r) \div DEN))

(***************************************************************************)
(* calculate_monthly_balance                                               *)
(***************************************************************************)
Entry(end_date, opening_balance, interest, service_fee, repayment, closing_balance) ==
    [ end_date        |-> strftime_dbY(end_date),
      opening_balance |-> opening_balance,
      interest        |-> interest,
      service_fee     |-> service_fee,
      repayment       |-> repayment,
      closing_balance |-> closing_balance ]

calculate_monthly_balance_paying_first(opening_balance, interest_rate, service_fee, repayment, start_date, end_date, is_first_month) ==
    IF is_first_month
    THEN Entry(end_date, Cents(0), Cents(0), Cents(0), Cents(repayment),
               Minus(opening_balance, Cents(repayment)))
    ELSE
      LET days            == days_between(end_date, start_date) + 1
          interest        == accrued_interest(days, interest_rate, opening_balance)
          closing_balance == Minus(Plus(Plus(opening_balance, interest), Cents(service_fee)),
                                   Cents(repayment))
      IN  Entry(end_date, round2(opening_balance), round2(interest),
                Cents(service_fee), Cents(repayment), round2(closing_balance))

calculate_monthly_balance(opening_balance, interest_rate, service_fee, repayment, start_date, end_date, is_first_month) ==
    IF is_first_month
    THEN Entry(end_date, Cents(0), Cents(0), Cents(0), Cents(repayment), opening_balance)
    ELSE
      LET days            == days_between(end_date, start_date) + 1
          interest        == accrued_interest(days, interest_rate, opening_balance)
          closing_balance == Minus(Plus(Plus(opening_balance, interest), Cents(service_fee)),
                                   Cents(repayment))
      IN  Entry(end_date, round2(opening_balance), round2(interest),
                Cents(service_fee), Cents(repayment), round2(closing_balance))

(***************************************************************************)
(* /calculate: the mid-month transaction branch                            *)
(***************************************************************************)
\* outcome of a branch of the handler: it goes on with `months`, returns a
\* response early, or raises.  What the branches assign to current_balance and
\* current_date is overwritten before it is read (current_balance =
\* initial_balance, current_date = start_date after the branches), so an outcome
\* carries `months` alone.
Continue(months) == [kind |-> "continue", months |-> months, error |-> ""]
Return(error)    == [kind |-> "return", months |-> <<>>, error |-> error]
Raise(exception) == [kind |-> "raise", months |-> <<>>, error |-> exception]

\* the cascade over months[i .. Len(months)] (1-based i), carrying current_balance
RECURSIVE cascade(_, _, _, _, _, _, _)
cascade(months, i, insert_index, transaction_date, current_balance, interest_rate, service_fee) ==
    IF i > Len(months) THEN months
    ELSE
      LET entry      == months[i]
          entry_date == strptime_dbY(entry.end_date)
          prev_date  == IF i = insert_index THEN transaction_date
                        ELSE strptime_dbY(months[i - 1].end_date)
          days       == days_between(entry_date, prev_date)
          interest   == accrued_interest(days, interest_rate, current_balance)
          balance    == Minus(Plus(Plus(current_balance, interest), Cents(service_fee)),
                              entry.repayment)
          opening    == Plus(Minus(Minus(balance, interest), Cents(service_fee)),
                             entry.repayment)
      IN  cascade([months EXCEPT ![i] = [@ EXCEPT !.opening_balance = round2(opening),
                                                  !.interest = round2(interest),
                                                  !.closing_balance = round2(balance)]],
                  i + 1, insert_index, transaction_date, balance,
                  interest_rate, service_fee)

InsertAt(seq, i, e) == SubSeq(seq, 1, i - 1) \o <<e>> \o SubSeq(seq, i, Len(seq))

\* the branch taken when `months` already holds entries
mid_month_into_schedule(data, months, transaction_date, interest_rate, service_fee) ==
    LET prev_balance    == months[Len(months)].closing_balance
        days            == transaction_date.d
        interest        == accrued_interest(days, data.midMonth_interest_rate, prev_balance)
        closing_balance == Minus(Plus(Plus(prev_balance, interest),
                                      Cents(data.midMonth_service_fee)),
                                 Cents(data.midMonth_amount))
        transaction_entry ==
            Entry(transaction_date, round2(prev_balance), round2(interest),
                  Cents(data.midMonth_service_fee), Cents(data.midMonth_amount),
                  round2(closing_balance))
        \* 1-based positions of months[month_index] and months[insert_index]
        clicked      == data.month_index + 1
        insert_index == data.month_index + 2
    IN  IF clicked > Len(months) THEN Raise("IndexError")
        ELSE
          LET clicked_date == strptime_dbY(months[clicked].end_date)
              has_next     == insert_index <= Len(months)
          IN  IF date_le(transaction_date, clicked_date)
              THEN Return("Transaction date must be after the selected row date")
              ELSE IF has_next /\ date_le(strptime_dbY(months[insert_index].end_date),
                                          transaction_date)
              THEN Return("Transaction date must be before the next row date")
              ELSE Continue(InsertAt(
                       cascade(months, insert_index, insert_index, transaction_date,
                               closing_balance, interest_rate, service_fee),
                       insert_index, transaction_entry))

\* the branch taken when `months` is empty
mid_month_first(data, transaction_date, initial_balance, current_date) ==
    LET days            == days_between(transaction_date, current_date)
        interest        == accrued_interest(days, data.midMonth_interest_rate, initial_balance)
        closing_balance == Minus(Plus(Plus(initial_balance, interest),
                                      Cents(data.midMonth_service_fee)),
                                 Cents(data.midMonth_amount))
    IN  Continue(<< Entry(transaction_date, round2(initial_balance), round2(interest),
                          Cents(data.midMonth_service_fee), Cents(data.midMonth_amount),
                          round2(closing_balance)) >>)

mid_month_transaction(data, months, initial_balance, interest_rate, service_fee, current_date) ==
    LET parsed == strptime_Ymd(data.midMonth_date)
    IN  IF ~ parsed.ok THEN Raise("ValueError")
        ELSE IF months # <<>>
        THEN mid_month_into_schedule(data, months, parsed.date, interest_rate, service_fee)
        ELSE mid_month_first(data, parsed.date, initial_balance, current_date)

(***************************************************************************)
(* /calculate: the direct deposit branch                                   *)
(***************************************************************************)
DepositEntry(e, flag) == e @@ [is_direct_deposit |-> flag]

repayment_at_one_based(repayments, index) ==
    IF 1 <= index /\ index <= Len(repayments) THEN repayments[index] ELSE 0

\* repayments[len(months)] if len(months) < len(repayments) else 0
repayment_at(repayments, index) ==
    IF index < Len(repayments) THEN repayments[index + 1] ELSE 0

\* while current_date <= deposit_date: ...
RECURSIVE deposit_walk(_, _, _, _, _, _, _, _)
deposit_walk(months, current_balance, current_date, deposit_date, deposit_amount, interest_rate, service_fee, repayments) ==
    IF ~ date_le(current_date, deposit_date) THEN months
    ELSE
      LET month_end == month_end_of(current_date)
      IN  IF date_le(deposit_date, month_end)
          THEN
            LET days_to_deposit     == days_between(deposit_date, current_date) + 1
                interest_to_deposit == accrued_interest(days_to_deposit, interest_rate,
                                                        current_balance)
                balance_at_deposit  == Plus(current_balance, interest_to_deposit)
                after_deposit       == Minus(balance_at_deposit, Cents(deposit_amount))
                first == DepositEntry(
                           Entry(deposit_date, round2(current_balance),
                                 round2(interest_to_deposit), Cents(0),
                                 Cents(deposit_amount), round2(after_deposit)), TRUE)
                days_after_deposit     == days_between(month_end, deposit_date)
                interest_after_deposit == accrued_interest(days_after_deposit, interest_rate,
                                                           after_deposit)
                closing_balance        == Plus(Plus(after_deposit, interest_after_deposit),
                                               Cents(service_fee))
                rest == DepositEntry(
                           Entry(month_end, round2(after_deposit),
                                 round2(interest_after_deposit), Cents(service_fee),
                                 Cents(0), round2(closing_balance)), FALSE)
            IN  \* break
                IF date_lt(deposit_date, month_end)
                THEN months \o <<first, rest>>
                ELSE Append(months, first)
          ELSE
            LET days            == days_between(month_end, current_date) + 1
                interest        == accrued_interest(days, interest_rate, current_balance)
                repayment       == repayment_at(repayments, Len(months))
                closing_balance == Minus(Plus(Plus(current_balance, interest),
                                              Cents(service_fee)), Cents(repayment))
                whole == DepositEntry(
                           Entry(month_end, round2(current_balance), round2(interest),
                                 Cents(service_fee), Cents(repayment),
                                 round2(closing_balance)), FALSE)
            IN  deposit_walk(Append(months, whole), closing_balance,
                             first_of_next_month(current_date), deposit_date,
                             deposit_amount, interest_rate, service_fee, repayments)

\* days_for_deposit = (deposit_date - months[-1]['end_date'].strftime('%d %b %Y')
\*                     if months else start_date).days + 1
\* months[-1]['end_date'] is a str, which has no strftime; start_date is a date,
\* which has no days: the statement raises whichever operand is chosen, and the
\* statements that follow it in the branch are never executed.
days_for_deposit(months) ==
    IF months # <<>> THEN Raise("AttributeError: 'str' object has no attribute 'strftime'")
    ELSE Raise("AttributeError: 'datetime.date' object has no attribute 'days'")

direct_deposit(data, months, initial_balance, interest_rate, service_fee, start_date, repayments) ==
    LET parsed == strptime_Ymd(data.deposit_date)
    IN  IF ~ parsed.ok THEN Raise("ValueError")
        ELSE days_for_deposit(
               deposit_walk(months, initial_balance, start_date, parsed.date,
                            data.deposit_amount, interest_rate, service_fee, repayments))

\* if data.get('is_mid_month_transaction'): ... elif data.get('is_direct_deposit'): ...
event_branch(data, months, initial_balance, interest_rate, service_fee, start_date, repayments) ==
    IF data.is_mid_month_transaction
    THEN mid_month_transaction(data, months, initial_balance, interest_rate, service_fee,
                               start_date)
    ELSE IF data.is_direct_deposit
    THEN direct_deposit(data, months, initial_balance, interest_rate, service_fee,
                        start_date, repayments)
    ELSE Continue(months)

(***************************************************************************)
(* /calculate: project_loan_end                                            *)
(***************************************************************************)
ProjectionCap == 120

\* The message the projector returns.  `text` is the message with its numbers
\* taken out, `months` the number of months simulated when it returned (the N
\* of the message when the loan settles), `refund` the X of the message, and
\* `simulated` the months the loop went through, in order: the balance a month
\* started from, the interest computed for it, and the balance it ended with.
Projection(text, n, refund, simulated) ==
    [text |-> text, months |-> n, refund |-> refund, simulated |-> simulated]

\* one simulated month
Simulated(opening_balance, interest, closing_balance) ==
    [ opening_balance |-> opening_balance, interest |-> interest,
      closing_balance |-> closing_balance ]

NoProjection == Projection("", 0, Cents(0), <<>>)

project_loan_end_counting_from_one(current_month_repayment, current_balance, current_date) ==
    IF current_month_repayment <= 0
    THEN [ returned |-> TRUE,
           projection |-> Projection("Loan will not settle - no repayment", 0,
                                     Cents(0), <<>>),
           projection_balance |-> Cents(0), months_to_settlement |-> 0,
           projection_date |-> NoDate ]
    ELSE [ returned |-> FALSE, projection |-> NoProjection,
           projection_balance |-> current_balance, months_to_settlement |-> 1,
           projection_date |-> current_date ]

\* project_loan_end from its first statement to the head of its loop: it
\* returns at once, or it sets the locals of the loop
project_loan_end(current_month_repayment, current_balance, current_date) ==
    IF current_month_repayment <= 0
    THEN [ returned |-> TRUE,
           projection |-> Projection("Loan will not settle - no repayment", 0,
                                     Cents(0), <<>>),
           projection_balance |-> Cents(0), months_to_settlement |-> 0,
           projection_date |-> NoDate ]
    ELSE [ returned |-> FALSE, projection |-> NoProjection,
           projection_balance |-> current_balance, months_to_settlement |-> 0,
           projection_date |-> current_date ]

\* next((r for r in reversed(repayments) if r > 0), 0)
last_positive(repayments) ==
    IF \E i \in 1..Len(repayments) : repayments[i] > 0
    THEN repayments[CHOOSE i \in 1..Len(repayments) :
                       /\ repayments[i] > 0
                       /\ \A j \in (i + 1)..Len(repayments) : repayments[j] <= 0]
    ELSE 0

(***************************************************************************)
(* /calculate_projection and /calculate_detailed_projection                *)
(*                                                                         *)
(* The loops of the projectors keep an unrounded float balance.  It is     *)
(* modelled to 1/DEN of a cent: each month's interest is cut to that unit. *)
(***************************************************************************)
\* (projection_balance * 30 / 365) * (interest_rate / 100)
thirty_day_interest(interest_rate, balance) ==
    accrued_interest(30, interest_rate, balance)

within_cap_inclusive(months) == months <= ProjectionCap

\* months < 120
within_cap(months) == months < ProjectionCap

\* a row of the detailed trace
ProjectionRow(month, opening_balance, interest, service_fee, repayment, closing_balance) ==
    [ month           |-> month,
      opening_balance |-> opening_balance,
      interest        |-> interest,
      service_fee     |-> service_fee,
      repayment       |-> repayment,
      closing_balance |-> closing_balance ]

(***************************************************************************)
(* Requests                                                                *)
(***************************************************************************)
\* a JSON string field: present with its text, or absent from the request
Present(text) == [present |-> TRUE, text |-> text]
Absent == [present |-> FALSE, text |-> <<>>]

\* data.get(key, '')
get_str(field) == IF field.present THEN field.text ELSE <<>>

Repeat(x, n) == [i \in 1..n |-> x]

\* loan parameters: initial_balance, interest_rate (percent), service_fee and
\* repayments (cents)
Loan(initial_balance, interest_rate, service_fee, repayments) ==
    [ initial_balance |-> initial_balance, interest_rate |-> interest_rate,
      service_fee |-> service_fee, repayments |-> repayments ]

Loans ==
    { Loan(Cents(1000000), 12, 2000, Repeat(50000, 12)),
      Loan(Cents(100000), 10, 500, <<0, 5000>>),
      Loan(Norm(25000, DEN \div 4), 10, 0, <<>>),
      Loan(Cents(10000), 12, 500, <<700, 15000>>),
      Loan(Cents(1000000), 12, 0, <<9900>>),
      Loan(Cents(1000000), 12, 2000, <<5000>>) }

StartDates ==
    { date(2024, 1, 15), date(2024, 2, 1), date(2024, 12, 31),
      date(2026, 6, 10) }

\* start_date fields the handler turns away: absent, empty, blank, not
\* year-month-day, no date of the calendar, trailing text
BadStartDateFields ==
    { Absent, Present(<<>>), Present(<<" ", " ">>),
      Present(<<"1", "5", "/", "0", "1", "/", "2", "0", "2", "4">>),
      Present(<<"2", "0", "2", "4", "-", "0", "2", "-", "3", "0">>),
      Present(<<"2", "0", "2", "4", "-", "0", "1", "-", "1", "5", "x">>) }

\* start_date fields that name a date: as a date input sends them, with one-digit
\* month and day, and with blanks around
GoodStartDateFields ==
    { Present(<<"2", "0", "2", "4", "-", "1", "-", "5">>),
      Present(<<" ">> \o isoformat(date(2024, 3, 31)) \o <<" ">>) }
    \cup { Present(isoformat(dt)) : dt \in StartDates }

StartDateFields == BadStartDateFields \cup GoodStartDateFields

NoEvent ==
    [ is_mid_month_transaction |-> FALSE, midMonth_date |-> <<>>, midMonth_amount |-> 0,
      midMonth_service_fee |-> 0, midMonth_interest_rate |-> 0, month_index |-> 0,
      is_direct_deposit |-> FALSE, deposit_date |-> <<>>, deposit_amount |-> 0 ]

MidMonthDates ==
    { date(2024, 1, 31), date(2024, 2, 10), date(2024, 2, 29),
      date(2024, 3, 15) }

MidMonthEvents ==
    { [NoEvent EXCEPT !.is_mid_month_transaction = TRUE,
                      !.midMonth_date = isoformat(dt),
                      !.midMonth_amount = 20000,
                      !.midMonth_service_fee = 100,
                      !.midMonth_interest_rate = 10,
                      !.month_index = k]
      : dt \in MidMonthDates, k \in 0..MaxAnchor }

DepositDates ==
    { date(2024, 1, 10), date(2024, 1, 20), date(2024, 1, 31),
      date(2024, 3, 10) }

DepositEvents ==
    { [NoEvent EXCEPT !.is_direct_deposit = TRUE,
                      !.deposit_date = isoformat(dt),
                      !.deposit_amount = 30000]
      : dt \in DepositDates }

Events == {NoEvent} \cup MidMonthEvents \cup DepositEvents

ClientNames == { <<"a", " ", "b">> }

Request(client_name, loan, start_date, event, download) ==
    [ client_name |-> client_name, start_date |-> start_date, download |-> download ]
    @@ loan @@ event

Requests ==
    { Request(n, loan, sd, ev, FALSE)
      : n \in ClientNames, loan \in Loans, sd \in StartDateFields, ev \in Events }

\* download requests
DownloadRequests ==
    { Request(n, loan, sd, ev, TRUE)
      : n \in ClientNames, loan \in { Loan(Cents(100000), 10, 500, <<0, 5000>>) },
        sd \in StartDateFields, ev \in Events }

\* the body of a request to /calculate_projection or /calculate_detailed_projection
\* (amounts in cents, the rate in percent)
ProjectionRequest(current_balance, monthly_repayment, interest_rate, service_fee) ==
    [ current_balance |-> current_balance, monthly_repayment |-> monthly_repayment,
      interest_rate |-> interest_rate, service_fee |-> service_fee ]

ProjectionRequests ==
    { ProjectionRequest(b, r, i, f)
      : b \in { Cents(1000000), Cents(100000), Cents(0), Cents(-5000) },
        r \in { -10000, 0, 5000, 9900, 50000 },
        i \in { 0, 12 },
        f \in { 0, 2000 } }

\* the dates the clock can show when a request arrives
AsOfDates ==
    { date(2024 + (k \div 12), (k % 12) + 1, 15) : k \in 0..(MaxAsOfMonths - 1) }

(***************************************************************************)
(* State                                                                   *)
(***************************************************************************)
VARIABLES
    pc,                 \* "idle", "build" (the handler is in its month loop),
                        \* "project" (it is in the loop of project_loan_end),
                        \* "summary" (the loop of /calculate_projection),
                        \* "detailed" (the loop of /calculate_detailed_projection),
                        \* "done"
    data,               \* request.get_json()
    today,              \* date.today()
    months,             \* locals of calculate()
    current_balance,
    current_date,
    month_index,
    projection_balance, \* locals of project_loan_end(), and of
    months_to_settlement, \* calculate_projection() (there: months)
    projection_date,
    simulated,          \* the months the summary projector has simulated so far
    balance,            \* locals of calculate_detailed_projection()
    month,
    projections,
    response,           \* what the handler returned
    balances,           \* the files of balances/, by name
    route,              \* the route of the request in hand
    earlier             \* the clock and the response of the request before it

vars == <<pc, data, today, months, current_balance, current_date, month_index,
          projection_balance, months_to_settlement, projection_date, simulated,
          balance, month, projections, response, balances, route, earlier>>

\* the locals of calculate_detailed_projection()
detailed_locals == <<balance, month, projections>>

NoData == Request(<<>>, Loan(Cents(0), 0, 0, <<>>), Absent, NoEvent, FALSE)
NoResponse ==
    [ status |-> 0, keys |-> {}, error |-> "", months |-> <<>>,
      projection |-> NoProjection, projections |-> <<>> ]

NoEarlier == [today |-> NoDate, response |-> NoResponse]

\* jsonify({'error': message}), status
ErrorResponse(status, message) ==
    [NoResponse EXCEPT !.status = status, !.keys = {"error"}, !.error = message]

\* an exception leaves the handler: Flask answers 500
ServerError(exception) ==
    [NoResponse EXCEPT !.status = 500, !.error = exception]

\* f"{data['client_name'].replace(' ', '_')}.json"
history_file(client_name) ==
    [i \in 1..Len(client_name) |-> IF client_name[i] = " " THEN "_" ELSE client_name[i]]

FileNames == { history_file(n) : n \in ClientNames }

Init ==
    /\ pc = "idle"
    /\ data = NoData
    /\ today = date(2024, 1, 15)
    /\ months = <<>>
    /\ current_balance = Cents(0)
    /\ current_date = NoDate
    /\ month_index = 0
    /\ projection_balance = Cents(0)
    /\ months_to_settlement = 0
    /\ projection_date = NoDate
    /\ simulated = <<>>
    /\ balance = Cents(0)
    /\ month = 0
    /\ projections = <<>>
    /\ response = NoResponse
    /\ balances = [f \in FileNames |-> NoData]
    /\ route = ""
    /\ earlier = NoEarlier

(***************************************************************************)
(* /calculate                                                              *)
(***************************************************************************)
persist_when_dated(files, d) ==
    IF ~ d.download /\ d.client_name # <<>> /\ strip(get_str(d.start_date)) # <<>>
    THEN [files EXCEPT ![history_file(d.client_name)] = d]
    ELSE files

\* if not download and data.get('client_name'): json.dump(data, history_file)
persist(files, d) ==
    IF ~ d.download /\ d.client_name # <<>>
    THEN [files EXCEPT ![history_file(d.client_name)] = d]
    ELSE files

validate_start_date_uncaught(field) ==
    LET start_date_str == strip(get_str(field))
        parsed         == strptime_Ymd(start_date_str)
    IN  IF start_date_str = <<>>
        THEN [ok |-> FALSE, date |-> NoDate,
              response |-> ErrorResponse(400, "Start date is required")]
        ELSE [ok |-> parsed.ok, date |-> parsed.date,
              response |-> ServerError("ValueError")]

\* start_date_str = data.get('start_date', '').strip(); the two checks of it
validate_start_date(field) ==
    LET start_date_str == strip(get_str(field))
        parsed         == strptime_Ymd(start_date_str)
    IN  IF start_date_str = <<>>
        THEN [ok |-> FALSE, date |-> NoDate,
              response |-> ErrorResponse(400, "Start date is required")]
        ELSE [ok |-> parsed.ok, date |-> parsed.date,
              response |-> ErrorResponse(400,
                             "Invalid start date format. Please use YYYY-MM-DD")]

Finish(resp) ==
    /\ pc' = "done"
    /\ response' = resp
    /\ months' = <<>>
    /\ current_balance' = Cents(0)
    /\ current_date' = NoDate
    /\ month_index' = 0
    /\ projection_balance' = Cents(0)
    /\ months_to_settlement' = 0
    /\ projection_date' = NoDate
    /\ simulated' = <<>>
    /\ balance' = Cents(0)
    /\ month' = 0
    /\ projections' = <<>>

\* The handler from its first statement to the head of the month loop: the
\* request is persisted, the start date validated, the event branch run, and
\* current_balance, current_date and today are set.  The numeric fields of the
\* request are taken to be present and numeric.
Receive(d, now) ==
    /\ pc \in {"idle", "done"}
    /\ route' = "/calculate"
    /\ earlier' = IF pc = "done" THEN [today |-> today, response |-> response]
                  ELSE earlier
    /\ data' = d
    /\ today' = now
    /\ balances' = persist(balances, d)
    /\ LET checked == validate_start_date(d.start_date)
           outcome == event_branch(d, <<>>, d.initial_balance, d.interest_rate,
                                   d.service_fee, checked.date, d.repayments)
       IN  IF ~ checked.ok
           THEN Finish(checked.response)
           ELSE IF outcome.kind = "raise"
           THEN Finish(ServerError(outcome.error))
           ELSE IF outcome.kind = "return"
           THEN Finish(ErrorResponse(200, outcome.error))
           ELSE /\ pc' = "build"
                /\ months' = outcome.months
                /\ current_balance' = d.initial_balance
                /\ current_date' = checked.date
                /\ month_index' = 0
                /\ UNCHANGED <<response, projection_balance, months_to_settlement,
                               projection_date, simulated, detailed_locals>>

current_month_end_today == today

\* date(today.year, today.month, calendar.monthrange(today.year, today.month)[1])
current_month_end == month_end_of(today)

carried_balance_before_repayment(month_data) ==
    Plus(month_data.closing_balance, month_data.repayment)

\* current_balance = month_data['closing_balance']
carried_balance(month_data) == month_data.closing_balance

\* one iteration of: while current_date <= current_month_end
BuildStep ==
    /\ pc = "build"
    /\ date_le(current_date, current_month_end)
    /\ LET end_date   == month_end_of(current_date)
           month_data == calculate_monthly_balance(
                             current_balance, data.interest_rate, data.service_fee,
                             repayment_at(data.repayments, month_index),
                             current_date, end_date, month_index = 0)
           carried    == carried_balance(month_data)
       IN  /\ months' = Append(months,
                          IF IsNeg(carried)
                          THEN month_data @@ [refund_message |-> round2(Abs(carried))]
                          ELSE month_data)
           /\ current_balance' = carried
    /\ month_index' = month_index + 1
    /\ current_date' = first_of_next_month(current_date)
    /\ UNCHANGED <<pc, data, today, response, balances, route, earlier,
                   projection_balance, months_to_settlement, projection_date,
                   simulated, detailed_locals>>

ScheduleColumns == 6

\* pd.DataFrame(months) has one column per key of the entries;
\* df.columns = [six names] raises ValueError for any other number of columns
columns_of(rows) == UNION { DOMAIN rows[i] : i \in 1..Len(rows) }

\* last_repayment, the argument of project_loan_end
last_repayment == last_positive(data.repayments)

\* the month loop has ended
built == pc = "build" /\ ~ date_le(current_date, current_month_end)

\* the call of project_loan_end, when it gets to its loop
CallProjector ==
    /\ built
    /\ last_repayment > 0
    /\ LET call == project_loan_end(last_repayment, current_balance, current_date)
       IN  /\ ~ call.returned
           /\ projection_balance' = call.projection_balance
           /\ months_to_settlement' = call.months_to_settlement
           /\ projection_date' = call.projection_date
    /\ simulated' = <<>>
    /\ pc' = "project"
    /\ UNCHANGED <<data, today, months, current_balance, current_date, month_index,
                   detailed_locals, response, balances, route, earlier>>

\* while projection_balance > 0 and months_to_settlement < 120
simulating ==
    pc = "project" /\ IsPos(projection_balance) /\ months_to_settlement < ProjectionCap

\* the interest of the month the loop is at
month_interest ==
    accrued_interest(days_between(month_end_of(projection_date), projection_date),
                     data.interest_rate, projection_balance)

\* if current_month_repayment <= interest
repayment_covers_interest == IsPos(Minus(Cents(last_repayment), month_interest))

\* one pass of the loop of project_loan_end that goes on to the next
ProjectStep ==
    /\ simulating
    /\ repayment_covers_interest
    /\ LET closing == Minus(Plus(Plus(projection_balance, month_interest),
                                 Cents(data.service_fee)),
                            Cents(last_repayment))
       IN  /\ projection_balance' = closing
           /\ simulated' = Append(simulated,
                             Simulated(projection_balance, month_interest, closing))
    /\ months_to_settlement' = months_to_settlement + 1
    /\ projection_date' = first_of_next_month(projection_date)
    /\ UNCHANGED <<pc, data, today, months, current_balance, current_date,
                   month_index, detailed_locals, response, balances, route, earlier>>

\* what project_loan_end returns, or the text that stands for it
projection_string ==
    IF pc = "build"
    THEN IF last_repayment > 0
         THEN project_loan_end(last_repayment, current_balance, current_date).projection
         ELSE Projection("No repayment entered yet", 0, Cents(0), <<>>)
    ELSE IF simulating
    THEN Projection("Loan will not settle - repayment less than monthly interest",
                    months_to_settlement, Cents(0), simulated)
    ELSE IF ~ IsPos(projection_balance)
    THEN Projection("Loan will settle in N months with a refund of $X",
                    months_to_settlement, round2(Abs(projection_balance)), simulated)
    ELSE Projection("Loan will not settle within 10 years", months_to_settlement,
                    Cents(0), simulated)

\* the handler from the return of project_loan_end, or from the month loop when
\* project_loan_end is not called or returns at once
Respond ==
    /\ \/ built /\ (last_repayment > 0 =>
                      project_loan_end(last_repayment, current_balance,
                                       current_date).returned)
       \/ pc = "project" /\ ~ (simulating /\ repayment_covers_interest)
    /\ IF data.download
       THEN IF Cardinality(columns_of(months)) # ScheduleColumns
            THEN Finish(ServerError("ValueError"))
            ELSE Finish([NoResponse EXCEPT !.status = 200, !.keys = {"file"},
                                           !.months = months])
       ELSE Finish([NoResponse EXCEPT
                      !.status = 200,
                      !.keys = {"client_name", "months", "calculated_at", "projection"},
                      !.months = months,
                      !.projection = projection_string])
    /\ UNCHANGED <<data, today, balances, route, earlier>>

(***************************************************************************)
(* /calculate_projection, /calculate_detailed_projection                   *)
(***************************************************************************)
\* The four fields of the request are taken to be present and numeric.
\* /calculate_projection from its first statement to the head of its loop
CalculateProjection(d) ==
    /\ pc \in {"idle", "done"}
    /\ pc' = "summary"
    /\ route' = "/calculate_projection"
    /\ data' = d
    /\ projection_balance' = d.current_balance
    /\ months_to_settlement' = 0
    /\ simulated' = <<>>
    /\ earlier' = IF pc = "done" THEN [today |-> today, response |-> response]
                  ELSE earlier
    /\ UNCHANGED <<today, months, current_balance, current_date, month_index,
                   projection_date, detailed_locals, response, balances>>

\* while projection_balance > 0 and months < 120
summing ==
    pc = "summary" /\ IsPos(projection_balance) /\ within_cap(months_to_settlement)

\* one pass of the loop of /calculate_projection
ProjectionStep ==
    /\ summing
    /\ LET interest == thirty_day_interest(data.interest_rate, projection_balance)
           closing  == Minus(Plus(Plus(projection_balance, interest),
                                  Cents(data.service_fee)),
                             Cents(data.monthly_repayment))
       IN  /\ projection_balance' = closing
           /\ simulated' = Append(simulated,
                             Simulated(projection_balance, interest, closing))
    /\ months_to_settlement' = months_to_settlement + 1
    /\ UNCHANGED <<pc, data, today, months, current_balance, current_date,
                   month_index, projection_date, detailed_locals, response, balances,
                   route, earlier>>

\* /calculate_projection after its loop
ProjectionRespond ==
    /\ pc = "summary"
    /\ ~ summing
    /\ Finish([NoResponse EXCEPT
                 !.status = 200,
                 !.keys = {"projection"},
                 !.projection =
                     IF ~ IsPos(projection_balance)
                     THEN Projection("Loan will settle in N months",
                                     months_to_settlement, Cents(0), simulated)
                     ELSE Projection("Loan will not settle within 10 years",
                                     months_to_settlement, Cents(0), simulated)])
    /\ UNCHANGED <<data, today, balances, route, earlier>>

\* /calculate_detailed_projection from its first statement to the head of its loop
CalculateDetailedProjection(d) ==
    /\ pc \in {"idle", "done"}
    /\ pc' = "detailed"
    /\ route' = "/calculate_detailed_projection"
    /\ data' = d
    /\ projections' = <<>>
    /\ balance' = d.current_balance
    /\ month' = 1
    /\ earlier' = IF pc = "done" THEN [today |-> today, response |-> response]
                  ELSE earlier
    /\ UNCHANGED <<today, months, current_balance, current_date, month_index,
                   projection_balance, months_to_settlement, projection_date,
                   simulated, response, balances>>

detailing_below_cap == pc = "detailed" /\ IsPos(balance) /\ month < ProjectionCap

\* while balance > 0 and month <= 120
detailing == pc = "detailed" /\ IsPos(balance) /\ month <= ProjectionCap

\* One pass of the loop of /calculate_detailed_projection.  Its break on
\* closing_balance <= 0 leaves the loop where the loop's own test on balance
\* would: balance has just been set to closing_balance.
DetailedStep ==
    /\ detailing
    /\ LET interest        == thirty_day_interest(data.interest_rate, balance)
           closing_balance == Minus(Plus(Plus(balance, interest),
                                         Cents(data.service_fee)),
                                    Cents(data.monthly_repayment))
       IN  /\ projections' = Append(projections,
                               ProjectionRow(month, balance, interest,
                                             Cents(data.service_fee),
                                             Cents(data.monthly_repayment),
                                             closing_balance))
           /\ balance' = closing_balance
    /\ month' = month + 1
    /\ UNCHANGED <<pc, data, today, months, current_balance, current_date,
                   month_index, projection_balance, months_to_settlement,
                   projection_date, simulated, response, balances, route, earlier>>

\* return jsonify({'projections': projections})
DetailedRespond ==
    /\ pc = "detailed"
    /\ ~ detailing
    /\ Finish([NoResponse EXCEPT !.status = 200, !.keys = {"projections"},
                                 !.projections = projections])
    /\ UNCHANGED <<data, today, balances, route, earlier>>

\* A behaviour serves one request: the handler reads nothing an earlier request
\* left behind (it only writes balances), so every request starts from Init.
Next ==
    \/ (pc = "idle" /\ \E d \in Requests, now \in AsOfDates : Receive(d, now))
    \/ BuildStep
    \/ CallProjector
    \/ ProjectStep
    \/ Respond

Spec == Init /\ [][Next]_vars

\* The three routes, and /calculate with its download requests as well.
ServiceNext ==
    \/ (pc = "idle" /\ \E d \in Requests \cup DownloadRequests, now \in AsOfDates :
                          Receive(d, now))
    \/ BuildStep
    \/ CallProjector
    \/ ProjectStep
    \/ Respond
    \/ (pc = "idle" /\ \E d \in ProjectionRequests : CalculateProjection(d))
    \/ ProjectionStep
    \/ ProjectionRespond
    \/ (pc = "idle" /\ \E d \in ProjectionRequests : CalculateDetailedProjection(d))
    \/ DetailedStep
    \/ DetailedRespond

Service == Init /\ [][ServiceNext]_vars

\* A request to /calculate, and then the same request once more, on the same
\* day or on another.
ReplayRequests ==
    { Request(n, loan, Present(isoformat(sd)), ev, FALSE)
      : n \in ClientNames,
        loan \in { Loan(Cents(1000000), 12, 2000, Repeat(50000, 12)),
                   Loan(Cents(100000), 10, 500, <<0, 5000>>) },
        sd \in StartDates,
        ev \in { NoEvent,
                 [NoEvent EXCEPT !.is_mid_month_transaction = TRUE,
                                 !.midMonth_date = isoformat(date(2024, 2, 10)),
                                 !.midMonth_amount = 20000,
                                 !.midMonth_service_fee = 100,
                                 !.midMonth_interest_rate = 10] } }

ReplayDates ==
    AsOfDates \cup { date(dt.y, dt.m, 1) : dt \in AsOfDates }

ReplayNext ==
    \/ (pc = "idle" /\ \E d \in ReplayRequests, now \in AsOfDates : Receive(d, now))
    \/ BuildStep
    \/ CallProjector
    \/ ProjectStep
    \/ Respond
    \/ (pc = "done" /\ earlier = NoEarlier /\ \E now \in ReplayDates : Receive(data, now))

Replay == Init /\ [][ReplayNext]_vars

\* A request to /calculate_projection, and then a request to
\* /calculate_detailed_projection with the same four fields.
AgreementNext ==
    \/ (pc = "idle" /\ \E d \in ProjectionRequests : CalculateProjection(d))
    \/ ProjectionStep
    \/ ProjectionRespond
    \/ (pc = "done" /\ route = "/calculate_projection" /\ CalculateDetailedProjection(data))
    \/ DetailedStep
    \/ DetailedRespond

Agreement == Init /\ [][AgreementNext]_vars

(***************************************************************************)
(* Properties                                                              *)
(***************************************************************************)
\* the handler has answered with a schedule
Returned == pc = "done" /\ response.status = 200 /\ "months" \in response.keys

NoEventRequest == ~ data.is_mid_month_transaction /\ ~ data.is_direct_deposit

schedule == response.months

EndDate(i) == strptime_dbY(schedule[i].end_date)

\* the start date of the request in hand, once it has passed validation
StartDate == validate_start_date(data.start_date).date

\* a and b differ by at most one cent
WithinCent(a, b) ==
    LET diff == Abs(Minus(a, b))
    IN  diff.c < 1 \/ (diff.c = 1 /\ diff.r = 0)

NonDecreasingEndDates ==
    \A i \in 1..(Len(schedule) - 1) : date_le(EndDate(i), EndDate(i + 1))

\* the month i months after dt's month, as [y, m]
MonthAfter(dt, i) ==
    LET t == dt.y * 12 + (dt.m - 1) + i
    IN  [y |-> t \div 12, m |-> (t % 12) + 1]

LastDayAfter(dt, i) ==
    LET ym == MonthAfter(dt, i)
    IN  date(ym.y, ym.m, monthrange(ym.y, ym.m))

\* the number of calendar months from dt's month through asof's month
MonthsThrough(dt, asof) ==
    LET n == (asof.y - dt.y) * 12 + (asof.m - dt.m) + 1
    IN  IF n > 0 THEN n ELSE 0

\* C1. Balance continuity: in a schedule returned for a request with no event,
\* the closing balance of each entry equals the opening balance of the next
\* entry to within 0.01.
C1_BalanceContinuity ==
    (Returned /\ NoEventRequest) =>
        \A i \in 1..(Len(schedule) - 1) :
            WithinCent(schedule[i].closing_balance, schedule[i + 1].opening_balance)

\* a returned event-free schedule of three or more entries whose first closing
\* balance is not a whole number of cents
C1_Witness ==
    /\ Returned /\ NoEventRequest
    /\ Len(schedule) >= 3
    /\ schedule[1].closing_balance.r # 0
    /\ schedule[3].interest.c > 0

\* C2. First-entry identity: the first entry of any returned non-empty schedule,
\* with or without an event in the request, has opening_balance 0 and
\* closing_balance initial_balance.
C2_FirstEntryIdentity ==
    (Returned /\ schedule # <<>>) =>
        /\ schedule[1].opening_balance = Cents(0)
        /\ schedule[1].closing_balance = data.initial_balance

\* the days entry i > 1 of an event-free schedule accrues: its period runs from
\* the first day of its month, and counts (end_date - start_date).days + 1
PeriodDays(i) == days_between(EndDate(i), date(EndDate(i).y, EndDate(i).m, 1)) + 1

\* x (in units of 1/DEN cent) is the interest of `days` days at `rate` on a
\* balance of c cents and a fraction of a cent, to the nearest cent
NearestCentOf(x, days, rate, c) ==
    /\ 2 * (x - days * rate * c) <= DEN + 2 * days * rate
    /\ 2 * (days * rate * c - x) <= DEN

\* C3. Accrual formula: a non-first period counts (end_date - start_date).days + 1
\* days, its interest is days/365 * rate/100 * opening balance rounded to cents,
\* its closing balance is opening + unrounded interest + fee - repayment rounded
\* to cents; 1000.00 at 10 % with fee 5.00 and repayment 50.00 over 31 days gives
\* interest 8.49 and closing balance 963.49.
C3_AccrualFormula ==
    (Returned /\ NoEventRequest) =>
        \A i \in 2..Len(schedule) :
            LET e       == schedule[i]
                opening == schedule[i - 1].closing_balance
                days    == PeriodDays(i)
                moved   == e.closing_balance.c - opening.c
                           - e.service_fee.c + e.repayment.c
            IN  /\ NearestCentOf(e.interest.c * DEN, days, data.interest_rate, opening.c)
                /\ 2 * (moved * DEN - days * data.interest_rate * opening.c)
                       <= 3 * DEN + 2 * days * data.interest_rate
                /\ 2 * (days * data.interest_rate * opening.c - moved * DEN) <= DEN
                /\ e.service_fee = Cents(data.service_fee)
                /\ ( /\ opening = Cents(100000) /\ data.interest_rate = 10
                     /\ e.service_fee = Cents(500) /\ e.repayment = Cents(5000)
                     /\ days = 31 )
                   => (e.interest = Cents(849) /\ e.closing_balance = Cents(96349))

\* the worked example has been computed
C3_Witness ==
    /\ Returned /\ NoEventRequest
    /\ \E i \in 2..Len(schedule) :
          /\ schedule[i].opening_balance = Cents(100000)
          /\ data.interest_rate = 10
          /\ schedule[i].service_fee = Cents(500)
          /\ schedule[i].repayment = Cents(5000)
          /\ PeriodDays(i) = 31
          /\ schedule[i].interest = Cents(849)

\* the end-to-end request: 10000.00 at 12 %, fee 20.00, start 2024-01-15,
\* twelve repayments of 500.00, no event, as of a day of December 2024
EndToEndScenario ==
    /\ Returned /\ NoEventRequest
    /\ data.initial_balance = Cents(1000000)
    /\ data.interest_rate = 12
    /\ data.service_fee = 2000
    /\ data.repayments = Repeat(50000, 12)
    /\ data.start_date = Present(isoformat(date(2024, 1, 15)))
    /\ today.y = 2024 /\ today.m = 12

\* C4, as claimed. The end-to-end request yields exactly 13 entries, a synthetic
\* opening row and twelve monthly rows, with non-decreasing end_date.
C4_ThirteenEntries ==
    EndToEndScenario => (Len(schedule) = 13 /\ NonDecreasingEndDates)

\* C4, amended. The end-to-end request yields exactly 12 entries, one for each
\* month of 2024 ending on that month's last day, in non-decreasing end_date
\* order; the January entry is the opening row (opening balance 0, no interest,
\* closing balance 10000.00).
C4_TwelveEntries ==
    EndToEndScenario =>
        /\ Len(schedule) = 12
        /\ NonDecreasingEndDates
        /\ \A i \in 1..Len(schedule) : EndDate(i) = date(2024, i, monthrange(2024, i))
        /\ schedule[1].opening_balance = Cents(0)
        /\ schedule[1].interest = Cents(0)
        /\ schedule[1].closing_balance = Cents(1000000)

C4_Witness == EndToEndScenario /\ Len(schedule) = 12

\* the rows the month loop appended: all of them, or all but the transaction
\* entry that a mid-month request puts at the head
BuilderRows == IF data.is_mid_month_transaction THEN Tail(schedule) ELSE schedule

C5_Coverage ==
    Returned =>
        LET rows == BuilderRows
            n    == MonthsThrough(StartDate, today)
        IN  /\ Len(rows) = n
            /\ date_lt(month_end_of(today), StartDate) => rows = <<>>
            /\ \A i \in 1..Len(rows) :
                  /\ strptime_dbY(rows[i].end_date) = LastDayAfter(StartDate, i - 1)
                  /\ rows[i].repayment =
                        Cents(IF i <= Len(data.repayments) THEN data.repayments[i] ELSE 0)

\* C5. Schedule Builder coverage: the month loop terminates (each pass adds one
\* to month_index, which never exceeds the number of calendar months from the
\* month of start_date through the as-of month, and the handler then returns),
\* and it appends one entry for each of these months (none when start_date is
\* after the as-of month's last day); entry i ends on the last day of the i-th
\* month and records repayments[i], or 0 past the end of repayments.
C5_BuilderCoverage ==
    /\ [] C5_Coverage
    /\ [] (pc = "build" => month_index <= MonthsThrough(StartDate, today))
    /\ [][ (pc = "build") =>
              \/ pc' \in {"project", "done"}
              \/ /\ pc' = "build"
                 /\ month_index' = month_index + 1
                 /\ Len(months') = Len(months) + 1 ]_vars

\* a returned schedule longer than the repayment list, so that a row records 0
C5_Witness ==
    /\ Returned /\ NoEventRequest
    /\ Len(schedule) >= 3
    /\ data.repayments # <<>>
    /\ Len(data.repayments) < Len(schedule)
    /\ schedule[2].repayment # Cents(0)

\* a mid-month request whose start date is valid has been answered
MidMonthAnswered ==
    /\ pc = "done"
    /\ data.is_mid_month_transaction
    /\ validate_start_date(data.start_date).ok

TransactionDate == strptime_Ymd(data.midMonth_date).date

\* the base schedule of the request has MonthsThrough(StartDate, today) entries;
\* entry k of it (counted from 0) ends on LastDayAfter(StartDate, k)
BaseEntries == MonthsThrough(StartDate, today)
AnchorEnd == LastDayAfter(StartDate, data.month_index)
NextEnd == LastDayAfter(StartDate, data.month_index + 1)
HasNext == data.month_index + 1 < BaseEntries

Rejected == "error" \in response.keys /\ response.months = <<>>

InWindow ==
    /\ date_lt(AnchorEnd, TransactionDate)
    /\ HasNext => date_lt(TransactionDate, NextEnd)

\* C6. Mid-month validation boundary: a transaction dated on or before the end
\* date of its anchor entry k is rejected, one dated on or after the end date of
\* entry k+1 (when there is one) is rejected, one strictly between is accepted;
\* a rejected request gets a validation error and no schedule.
C6_MidMonthValidation ==
    (MidMonthAnswered /\ data.month_index < BaseEntries) =>
        /\ date_le(TransactionDate, AnchorEnd) => Rejected
        /\ (HasNext /\ date_le(NextEnd, TransactionDate)) => Rejected
        /\ InWindow => Returned

\* C7. Mid-month cascade recompute: in the schedule returned for an accepted
\* mid-month repayment anchored at k, the event entry comes right after entry k,
\* and each later entry opens with the balance carried forward from the entry
\* before it, starting from the event entry's closing balance, and keeps its own
\* repayment.
C7_MidMonthCascade ==
    (MidMonthAnswered /\ Returned /\ data.month_index < BaseEntries /\ InWindow) =>
        LET at == data.month_index + 2
        IN  /\ Len(schedule) = BaseEntries + 1
            /\ EndDate(at) = TransactionDate
            /\ schedule[at].repayment = Cents(data.midMonth_amount)
            /\ \A j \in (at + 1)..Len(schedule) :
                  /\ WithinCent(schedule[j].opening_balance,
                                schedule[j - 1].closing_balance)
                  /\ schedule[j].repayment = Cents(repayment_at(data.repayments, j - 2))

\* a direct-deposit request whose start date is valid and whose deposit is dated
\* on or after it has been answered
DepositAnswered ==
    /\ pc = "done"
    /\ data.is_direct_deposit /\ ~ data.is_mid_month_transaction
    /\ validate_start_date(data.start_date).ok
    /\ strptime_Ymd(data.deposit_date).ok
    /\ date_le(StartDate, strptime_Ymd(data.deposit_date).date)

DepositDate == strptime_Ymd(data.deposit_date).date

IsDepositEntry(e) ==
    /\ strptime_dbY(e.end_date) = DepositDate
    /\ e.repayment = Cents(data.deposit_amount)
    /\ "is_direct_deposit" \in DOMAIN e
    /\ e.is_direct_deposit

IsRemainderEntry(e) ==
    /\ strptime_dbY(e.end_date) = month_end_of(DepositDate)
    /\ e.repayment = Cents(0)
    /\ e.service_fee = Cents(data.service_fee)
    /\ "is_direct_deposit" \in DOMAIN e
    /\ ~ e.is_direct_deposit

\* C8. Direct deposit split: a direct-deposit request dated on or after
\* start_date succeeds, and its schedule holds exactly one entry ending on the
\* deposit date with the deposit as repayment and is_direct_deposit true,
\* followed, when the deposit is before its month's last day, by a remainder
\* entry ending on that last day with repayment 0, the ordinary service fee and
\* is_direct_deposit false.
C8_DirectDepositSplit ==
    DepositAnswered =>
        /\ Returned
        /\ Cardinality({ i \in 1..Len(schedule) : IsDepositEntry(schedule[i]) }) = 1
        /\ \A i \in 1..Len(schedule) :
              (IsDepositEntry(schedule[i]) /\ date_lt(DepositDate, month_end_of(DepositDate)))
                  => (i < Len(schedule) /\ IsRemainderEntry(schedule[i + 1]))

\* C9. Ordering: the entries of every returned schedule are in non-decreasing
\* end_date order.
C9_Ordering == Returned => NonDecreasingEndDates

Calculated == route = "/calculate" /\ Returned /\ "projection" \in response.keys

\* /calculate_projection has answered
Projected == route = "/calculate_projection" /\ pc = "done"

\* /calculate_detailed_projection has answered
Detailed == route = "/calculate_detailed_projection" /\ pc = "done"

\* project_loan_end is at the head of its loop, before its first month
AtFirstMonth == pc = "project" /\ months_to_settlement = 0

NoRepaymentText == "Loan will not settle - no repayment"
InterestText == "Loan will not settle - repayment less than monthly interest"
TenYearsText == "Loan will not settle within 10 years"

\* C11: when the repayment is positive and at most the interest of the first
\* simulated month, the summary projector answers that the repayment is less
\* than the monthly interest, with no month simulated: project_loan_end at the
\* head of its loop returns that message with zero months, and so does
\* /calculate_projection.
C11_NonConvergence ==
    /\ (AtFirstMonth /\ last_repayment > 0 /\ ~ repayment_covers_interest)
          => /\ projection_string.text = InterestText
             /\ projection_string.months = 0
             /\ projection_string.simulated = <<>>
    /\ (/\ Projected
        /\ data.monthly_repayment > 0
        /\ ~ IsPos(Minus(Cents(data.monthly_repayment),
                         thirty_day_interest(data.interest_rate, data.current_balance))))
          => /\ response.projection.text = InterestText
             /\ response.projection.months = 0
             /\ response.projection.simulated = <<>>

\* C12: no projection loop makes more than 120 passes, and a summary projector
\* whose balance is still positive after the 120th pass has made exactly 120
\* and answers that the loan will not settle within 10 years.
C12_ProjectionCap ==
    /\ pc = "project" =>
          /\ months_to_settlement <= ProjectionCap
          /\ Len(simulated) = months_to_settlement
          /\ (months_to_settlement = ProjectionCap /\ IsPos(projection_balance))
                => projection_string.text = TenYearsText
    /\ Calculated =>
          /\ response.projection.months <= ProjectionCap
          /\ response.projection.text = TenYearsText
                => /\ response.projection.months = ProjectionCap
                   /\ Len(response.projection.simulated) = ProjectionCap
                   /\ IsPos(response.projection.simulated[ProjectionCap].closing_balance)
    /\ Projected =>
          /\ Len(response.projection.simulated) = response.projection.months
          /\ response.projection.months <= ProjectionCap
          /\ response.projection.text = TenYearsText
                <=> /\ response.projection.months = ProjectionCap
                    /\ IsPos(response.projection.simulated[ProjectionCap].closing_balance)
    /\ pc = "summary" =>
          /\ months_to_settlement <= ProjectionCap
          /\ Len(simulated) = months_to_settlement
    /\ pc = "detailed" => Len(projections) = month - 1 /\ month <= ProjectionCap + 1
    /\ Detailed => Len(response.projections) <= ProjectionCap

\* /calculate_projection went through 120 months with a repayment above each
\* month's interest, and the balance is still positive
C12_Witness ==
    /\ Projected
    /\ data.monthly_repayment = 9900
    /\ response.projection.text = TenYearsText
    /\ response.projection.months = ProjectionCap
    /\ \A i \in 1..ProjectionCap :
          IsPos(Minus(Cents(data.monthly_repayment),
                      response.projection.simulated[i].interest))

\* C13: when no positive repayment is given (/calculate: none in repayments;
\* /calculate_projection: monthly_repayment <= 0) the projection is the
\* no-repayment message and no month is simulated.
C13_NoRepayment ==
    /\ (Calculated /\ last_positive(data.repayments) <= 0)
          => /\ response.projection.text = NoRepaymentText
             /\ response.projection.simulated = <<>>
    /\ (Projected /\ data.monthly_repayment <= 0)
          => /\ response.projection.text = NoRepaymentText
             /\ response.projection.simulated = <<>>

SettleText == "Loan will settle in N months with a refund of $X"

\* the month loop of the request in hand made at least one pass
BuilderRan == date_le(StartDate, month_end_of(today))

\* the balance project_loan_end started from: the closing balance of the last
\* row the month loop built, the initial balance when it built none
StartingBalance ==
    IF BuilderRan THEN schedule[Len(schedule)].closing_balance
    ELSE data.initial_balance

\* the balance after the last simulated month
FinalBalance ==
    IF response.projection.simulated = <<>> THEN StartingBalance
    ELSE response.projection.simulated[Len(response.projection.simulated)].closing_balance

\* C14: when /calculate reports that the loan will settle in N months with a
\* refund of X, the projector simulated N <= 120 months from the balance the
\* schedule ended with, the running balance was positive after each of the
\* first N - 1 months and is not after month N, N is 0 exactly when the starting
\* balance is not positive, and X is the size of the final balance, to the cent.
C14_SettlementResult ==
    (Calculated /\ response.projection.text = SettleText) =>
        LET p == response.projection
            N == p.months
        IN  /\ N = Len(p.simulated)
            /\ N <= ProjectionCap
            /\ N > 0 => p.simulated[1].opening_balance = StartingBalance
            /\ \A i \in 1..N :
                  /\ p.simulated[i].closing_balance =
                        Minus(Plus(Plus(p.simulated[i].opening_balance,
                                        p.simulated[i].interest),
                                   Cents(data.service_fee)),
                              Cents(last_positive(data.repayments)))
                  /\ i < N => /\ IsPos(p.simulated[i].closing_balance)
                              /\ p.simulated[i + 1].opening_balance =
                                    p.simulated[i].closing_balance
            /\ ~ IsPos(FinalBalance)
            /\ (N = 0) <=> ~ IsPos(StartingBalance)
            /\ ~ IsNeg(p.refund)
            /\ p.refund = round2(IF IsNeg(FinalBalance)
                                 THEN Minus(Cents(0), FinalBalance)
                                 ELSE FinalBalance)

\* a projection that settles after more than one month with money to refund
C14_Witness ==
    /\ Calculated
    /\ response.projection.text = SettleText
    /\ response.projection.months >= 2
    /\ IsPos(response.projection.refund)

\* C15: /calculate_detailed_projection stops where the summary projector stops:
\* no rows for a repayment <= 0, no row for a month whose interest the repayment
\* does not exceed, no row after one whose closing balance is <= 0, and at most
\* 120 rows.
C15_DetailedTermination ==
    Detailed =>
        /\ data.monthly_repayment <= 0 => response.projections = <<>>
        /\ \A i \in 1..Len(response.projections) :
              /\ IsPos(Minus(response.projections[i].repayment,
                             response.projections[i].interest))
              /\ i < Len(response.projections)
                    => IsPos(response.projections[i].closing_balance)
        /\ Len(response.projections) <= ProjectionCap

(***************************************************************************)
(* The same request twice                                                  *)
(***************************************************************************)
\* /calculate has answered the request in hand a second time
Replayed == pc = "done" /\ route = "/calculate" /\ earlier # NoEarlier

\* the two requests arrived in the same calendar month
SameMonth == earlier.today.y = today.y /\ earlier.today.m = today.m

\* C16 as stated: the same request data gives the same schedule and the same
\* projection, whenever the two requests are executed.
C16_Determinism ==
    Replayed =>
        /\ response.months = earlier.response.months
        /\ response.projection.text = earlier.response.projection.text
        /\ response.projection.months = earlier.response.projection.months
        /\ response.projection.refund = earlier.response.projection.refund

\* C16: the same request data, executed twice in the same calendar month, gives
\* the same response: the schedule and the projection depend on the request and
\* on the month of date.today().
C16_SameMonthDeterminism ==
    (Replayed /\ SameMonth) => response = earlier.response

\* the same request answered on two days of one month, with a schedule of
\* several rows and a projection
C16_Witness ==
    /\ Replayed
    /\ SameMonth
    /\ earlier.today # today
    /\ Len(response.months) >= 2
    /\ response.projection.text = SettleText

(***************************************************************************)
(* Day counts, rounding, persistence, the first month                      *)
(***************************************************************************)
\* C17: every month a projector simulates takes its interest as
\* balance * 30/365 * rate/100, whatever the length of the calendar month: in the
\* projection of /calculate, in /calculate_projection and in the rows of
\* /calculate_detailed_projection.
C17_ThirtyDayInterest ==
    /\ Calculated =>
          \A i \in 1..Len(response.projection.simulated) :
              response.projection.simulated[i].interest =
                  accrued_interest(30, data.interest_rate,
                                   response.projection.simulated[i].opening_balance)
    /\ Projected =>
          \A i \in 1..Len(response.projection.simulated) :
              response.projection.simulated[i].interest =
                  accrued_interest(30, data.interest_rate,
                                   response.projection.simulated[i].opening_balance)
    /\ Detailed =>
          \A i \in 1..Len(response.projections) :
              response.projections[i].interest =
                  accrued_interest(30, data.interest_rate,
                                   response.projections[i].opening_balance)

\* the closing balance of the period the month loop is about to build, before
\* any rounding
UnroundedClosing ==
    IF month_index = 0 THEN current_balance
    ELSE Minus(Plus(Plus(current_balance,
                         accrued_interest(
                             days_between(month_end_of(current_date), current_date) + 1,
                             data.interest_rate, current_balance)),
                    Cents(data.service_fee)),
               Cents(IF month_index < Len(data.repayments)
                     THEN data.repayments[month_index + 1] ELSE 0))

\* C18: the balance the month loop carries into the next period is the
\* unrounded closing balance of the period it has just built.
C18_UnroundedRunningBalance ==
    [][ (pc = "build" /\ pc' = "build" /\ month_index' = month_index + 1)
           => current_balance' = UnroundedClosing ]_vars

\* the blob kept for the client of the request in hand
Blob == balances[history_file(data.client_name)]

\* C19: from its first step on, a /calculate request with download false has
\* replaced its client's blob with the request data, also when it is then
\* answered 400 for its start date; a request with download true leaves the blob
\* as it was.
C19_PersistBeforeValidate ==
    (route = "/calculate" /\ data.client_name # <<>>) =>
        /\ ~ data.download => Blob = data
        /\ data.download => Blob = NoData

\* a request without a start date was answered 400 and is in the blob
C19_Witness ==
    /\ route = "/calculate"
    /\ pc = "done"
    /\ response.status = 400
    /\ response.error = "Start date is required"
    /\ ~ data.download
    /\ Blob = data
    /\ Blob # NoData

\* C20: in an event-free schedule the first entry records repayments[0] (0 for
\* an empty list), with interest 0, service fee 0 and closing balance
\* initial_balance; the second entry opens with initial_balance rounded to the
\* cent and accrues on initial_balance for the days of its own month only, so
\* repayments[0] is subtracted nowhere and the days up to the end of the start
\* month are charged nothing.
C20_FirstMonthInert ==
    (Returned /\ NoEventRequest /\ schedule # <<>>) =>
        /\ schedule[1].repayment =
              Cents(IF data.repayments = <<>> THEN 0 ELSE data.repayments[1])
        /\ schedule[1].interest = Cents(0)
        /\ schedule[1].service_fee = Cents(0)
        /\ schedule[1].closing_balance = data.initial_balance
        /\ Len(schedule) >= 2 =>
              /\ schedule[2].opening_balance = round2(data.initial_balance)
              /\ schedule[2].interest =
                    round2(accrued_interest(PeriodDays(2), data.interest_rate,
                                            data.initial_balance))
              /\ schedule[2].closing_balance =
                    round2(Minus(Plus(Plus(data.initial_balance,
                                           accrued_interest(PeriodDays(2),
                                                            data.interest_rate,
                                                            data.initial_balance)),
                                      Cents(data.service_fee)),
                                 Cents(IF Len(data.repayments) >= 2
                                       THEN data.repayments[2] ELSE 0)))

\* an event-free schedule of several rows whose first row records a repayment
C20_Witness ==
    /\ Returned
    /\ NoEventRequest
    /\ Len(schedule) >= 2
    /\ IsPos(schedule[1].repayment)
    /\ IsPos(schedule[2].interest)

(***************************************************************************)
(* The summary and the detailed projection of the same input               *)
(***************************************************************************)
\* /calculate_detailed_projection has answered, after /calculate_projection
\* answered the same four fields
BothAnswered ==
    /\ Detailed
    /\ earlier # NoEarlier
    /\ "projection" \in earlier.response.keys

\* C21: for the same current_balance, monthly_repayment, interest_rate and
\* service_fee, /calculate_detailed_projection returns as many rows as
\* /calculate_projection made passes of its loop (the N of its message when the
\* loan settles, 120 when it does not); every row opens with the closing
\* balance of the row before it, and no row but the last closes at or below 0.
C21_SummaryDetailedAgreement ==
    BothAnswered =>
        LET rows    == response.projections
            summary == earlier.response.projection
        IN  /\ Len(rows) = summary.months
            /\ Len(rows) = Len(summary.simulated)
            /\ summary.text = TenYearsText => Len(rows) = ProjectionCap
            /\ summary.text # TenYearsText =>
                  /\ summary.text = "Loan will settle in N months"
                  /\ rows # <<>> => ~ IsPos(rows[Len(rows)].closing_balance)
            /\ rows # <<>> => rows[1].opening_balance = data.current_balance
            /\ \A i \in 1..Len(rows) :
                  /\ rows[i].month = i
                  /\ i < Len(rows) =>
                        /\ rows[i + 1].opening_balance = rows[i].closing_balance
                        /\ IsPos(rows[i].closing_balance)

\* both answered a loan that settles after several months
C21_Witness ==
    /\ BothAnswered
    /\ earlier.response.projection.text = "Loan will settle in N months"
    /\ earlier.response.projection.months >= 2
    /\ Len(response.projections) >= 2
    /\ IsNeg(response.projections[Len(response.projections)].closing_balance)

====
